---- MODULE Spec2Model ----
(***************************************************************************)
(* Side-pass scenario stages of modules/planning/scenarios/side_pass/      *)
(* side_pass_stage.cc, one planning cycle per step.                        *)
(*                                                                         *)
(* Numbers.  The code's doubles are modelled as integers in tenths of the  *)
(* code's unit (0.1 m, 0.1 m/s): 15.0 m is 150, 0.3 m is 3, 1.0 m is 10.   *)
(* The code only adds, subtracts, compares and takes min/max of them, and  *)
(* all of these are exact on this grid.                                    *)
(***************************************************************************)
EXTENDS Integers, Sequences, FiniteSets

VARIABLES
    stage,             \* stage type the scenario invokes in the next cycle
    ran,               \* stage type whose Process ran in the last cycle
    status,            \* Stage::StageStatus returned by the last cycle
    next_stage_,       \* Stage::next_stage_ of the stage object that ran
    path_data_,        \* GetContext()->path_data_ (the active path)
    scenario_config_,  \* GetContext()->scenario_config_
    FLAGS_static_decision_nudge_l_buffer,
    frame,             \* the Frame handed to the last cycle (scene inputs)
    rfl_path_data,     \* frame->reference_line_info().front().path_data()
    debug_path,        \* paths added to the frame's planning debug data
    log                \* side effects of the last cycle, in program order

vars == << stage, ran, status, next_stage_, path_data_, scenario_config_,
           FLAGS_static_decision_nudge_l_buffer, frame, rfl_path_data,
           debug_path, log >>

(***************************************************************************)
(* Bounds of the model.                                                    *)
(***************************************************************************)
MaxObstacles == 2

(***************************************************************************)
(* Constants of the code (tenths of a metre).                              *)
(***************************************************************************)
kExtraMarginforStopOnWaitPointStage == 30
kAdcDistanceThreshold == 150
kLBufferThreshold == 3

Max(a, b) == IF a >= b THEN a ELSE b
Min(a, b) == IF a <= b THEN a ELSE b

StageStatuses == {"ERROR", "READY", "RUNNING", "FINISHED"}

StageTypes ==
    {"NO_STAGE", "SIDE_PASS_APPROACH_OBSTACLE", "SIDE_PASS_GENERATE_PATH",
     "SIDE_PASS_STOP_ON_WAITPOINT", "SIDE_PASS_DETECT_SAFETY",
     "SIDE_PASS_PASS_OBSTACLE", "SIDE_PASS_BACKUP"}

(***************************************************************************)
(* Scene inputs.  An obstacle carries what the stages read of it: Id(),    *)
(* IsVirtual(), IsStatic(), speed(), PerceptionSLBoundary() and the result *)
(* of reference_line().HasOverlap(PerceptionBoundingBox()).                *)
(***************************************************************************)
Obs(id, v, st, sp, ss, es, sl, el, road) ==
    [id |-> id, is_virtual |-> v, is_static |-> st, speed |-> sp,
     start_s |-> ss, end_s |-> es, start_l |-> sl, end_l |-> el,
     on_road |-> road]

\* The obstacles a scene is drawn from (ego end-station 0 in the frames of
\* the obstacle-scanning stages): in and out of the 15 m window and at its
\* edges, static and moving, at and above the speed cutoff, real and
\* virtual, on and off the road, inside, outside and at the edge of the
\* +-1 m corridor, with driving widths below, at and above 0.3 m.
ObstacleUniverse ==
    << Obs(<<"1">>, FALSE, TRUE, 0, 100, 140, -5, 20, TRUE),
       Obs(<<"2">>, FALSE, TRUE, 5, 60, 100, -12, 12, TRUE),
       Obs(<<"4">>, FALSE, TRUE, 0, 151, 190, -15, 15, TRUE),
       Obs(<<"5">>, FALSE, TRUE, 0, 0, 40, -15, 15, TRUE),
       Obs(<<"S", "P", "_", "6">>, FALSE, FALSE, 30, -20, 30, 15, 30, TRUE),
       Obs(<<"7">>, FALSE, TRUE, 6, 50, 90, -15, 15, TRUE),
       Obs(<<"S", "P", "_", "8">>, TRUE, TRUE, 0, 50, 51, -15, 15, TRUE),
       Obs(<<"9">>, FALSE, FALSE, 0, 30, 70, -15, 15, TRUE),
       Obs(<<"1", "0">>, FALSE, TRUE, 0, 90, 130, 11, 30, TRUE),
       Obs(<<"1", "1">>, FALSE, TRUE, 0, 150, 190, -11, 12, FALSE),
       Obs(<<"S", "P">>, TRUE, TRUE, 0, 0, 1, -30, -11, TRUE) >>

RECURSIVE Pick(_, _)
Pick(S, i) ==
    IF i > Len(ObstacleUniverse) THEN << >>
    ELSE IF i \in S THEN << ObstacleUniverse[i] >> \o Pick(S, i + 1)
    ELSE Pick(S, i + 1)

\* path_decision.obstacles().Items(): distinct obstacles, in list order
ObstacleLists ==
    { Pick(S, 1) : S \in { T \in SUBSET (1 .. Len(ObstacleUniverse)) :
                           Cardinality(T) <= MaxObstacles } }

LaneWidths ==
    { [left |-> 18, right |-> 18], [left |-> 6, right |-> 18],
      [left |-> 18, right |-> 6] }

Velocities == {10, 20, 30}

\* paths the optimizer can leave in the frame, as stations of their points
PlanPaths == { << -25, 300, 550 >>, << 0, 300, 550 >> }

Configs ==
    [block_obstacle_min_speed : {5},
     approach_obstacle_max_stop_speed : {20},
     approach_obstacle_min_stop_distance : {50},
     side_pass_exit_distance : {30}]

NudgeBuffers == {3}

DefaultFrame ==
    [obstacles |-> << >>,
     adc_sl_boundary |-> [start_s |-> -50, end_s |-> 0],
     lane |-> [left |-> 18, right |-> 18],
     linear_velocity |-> 30,
     plan_ok |-> TRUE,
     plan_path |-> << -25, 300, 550 >>,
     num_points |-> 1,
     frenet_ok |-> TRUE,
     adc_frenet_s |-> -25,
     xy_to_sl |-> [ok |-> TRUE, s |-> 550]]


(***************************************************************************)
(* External collaborators, as the results the stages read.                 *)
(***************************************************************************)
\* reference_line.GetLaneWidth(s, &left, &right)
GetLaneWidth(f, s) == f.lane

\* Stage::PlanningOnReferenceLine(planning_start_point, frame)
PlanningOnReferenceLine(f) == f.plan_ok

\* Stage::Stage(config): a stage object starts with its own type as next_stage_
InitialNextStage(s) == s

\* the stage whose Process a next-stage directive selects: the directive
\* SIDE_PASS_STOP_ON_WAITPOINT names the detect-safety stage
StageOf(nxt) ==
    IF nxt = "SIDE_PASS_STOP_ON_WAITPOINT" THEN "SIDE_PASS_DETECT_SAFETY"
    ELSE nxt

\* Scenario::Process: the stage it invokes after a cycle's status
NextStageToRun(s, st, nxt) ==
    IF st = "FINISHED" THEN StageOf(nxt) ELSE s

(***************************************************************************)
(* SidePassBackup::Process                                                 *)
(***************************************************************************)
\* variant: the narrower of the two sides instead of the wider
DrivingWidth_MinOfSides(o, lane_left_width, lane_right_width, nudge) ==
    Min(lane_left_width + lane_right_width,
        Min(lane_left_width - o.end_l, lane_right_width + o.start_l)) - nudge

\* variant: operands of the left-side subtraction swapped
DrivingWidth_SwappedLeft(o, lane_left_width, lane_right_width, nudge) ==
    Min(lane_left_width + lane_right_width,
        Max(o.end_l - lane_left_width, lane_right_width + o.start_l)) - nudge

\* lines 82-87
DrivingWidth(o, lane_left_width, lane_right_width, nudge) ==
    Min(lane_left_width + lane_right_width,
        Max(lane_left_width - o.end_l, lane_right_width + o.start_l)) - nudge

\* variant: without the far-away test of lines 68-72
SkippedBeforeLateralCheck_NoFarCheck(o, adc_sl_boundary, cfg) ==
    \/ o.is_virtual \/ ~o.is_static
    \/ o.speed > cfg.block_obstacle_min_speed
    \/ o.start_s <= adc_sl_boundary.end_s

\* lines 55-72, shared word for word by lines 126-143: TRUE when the loop
\* body reaches `continue` before the lateral check
SkippedBeforeLateralCheck(o, adc_sl_boundary, cfg) ==
    \/ o.is_virtual \/ ~o.is_static
    \/ o.speed > cfg.block_obstacle_min_speed
    \/ o.start_s <= adc_sl_boundary.end_s
    \/ o.start_s > adc_sl_boundary.end_s + kAdcDistanceThreshold

\* variant: `>=` for `>` at line 89
BackupSkips_AtThreshold(o, f, cfg, nudge) ==
    \/ SkippedBeforeLateralCheck(o, f.adc_sl_boundary, cfg)
    \/ LET w == GetLaneWidth(f, o.start_s)
       IN  DrivingWidth(o, w.left, w.right, nudge) >= kLBufferThreshold

\* lines 55-91: TRUE when the loop body reaches `continue`
BackupSkips(o, f, cfg, nudge) ==
    \/ SkippedBeforeLateralCheck(o, f.adc_sl_boundary, cfg)
    \/ LET w == GetLaneWidth(f, o.start_s)
       IN  DrivingWidth(o, w.left, w.right, nudge) > kLBufferThreshold

\* lines 53-95: the loop from obstacle i on, leaving at the first blocker
RECURSIVE BackupScan(_, _, _, _)
BackupScan(f, cfg, nudge, i) ==
    IF i > Len(f.obstacles) THEN FALSE
    ELSE IF BackupSkips(f.obstacles[i], f, cfg, nudge)
         THEN BackupScan(f, cfg, nudge, i + 1)
         ELSE TRUE

BackupHasBlockingObstacle(f, cfg, nudge) == BackupScan(f, cfg, nudge, 1)

\* A stage's outcome: the status it returns and what it leaves behind.
\* pre = [next_stage_, path_data_] before the call.
Outcome(st, nxt, pd, rfl, dbg, lg) ==
    [status |-> st, next_stage_ |-> nxt, path_data_ |-> pd,
     rfl_path_data |-> rfl, debug_path |-> dbg, log |-> lg]

\* the optimizer leaves its path in the frame's working path when it succeeds
AfterPlan(f, rfl) == IF f.plan_ok THEN f.plan_path ELSE rfl

\* variant: a failed replan keeps the stage running
BackupProcess_RunningOnPlanFailure(f, pre, cfg, nudge) ==
    IF ~BackupHasBlockingObstacle(f, cfg, nudge)
    THEN Outcome("FINISHED", "NO_STAGE", pre.path_data_, << >>, << >>, << >>)
    ELSE Outcome("RUNNING", pre.next_stage_, pre.path_data_,
                 AfterPlan(f, << >>), << >>, << "plan" >>)

\* variant: the stage keeps the replanned path as the stored path
BackupProcess_StoresPath(f, pre, cfg, nudge) ==
    IF ~BackupHasBlockingObstacle(f, cfg, nudge)
    THEN Outcome("FINISHED", "NO_STAGE", pre.path_data_, << >>, << >>, << >>)
    ELSE IF ~PlanningOnReferenceLine(f)
    THEN Outcome("ERROR", pre.next_stage_, pre.path_data_,
                 AfterPlan(f, << >>), << >>, << "plan" >>)
    ELSE Outcome("RUNNING", pre.next_stage_, AfterPlan(f, << >>),
                 AfterPlan(f, << >>), << >>, << "plan", "store" >>)

\* variant: with no blocker left the stage sends the scenario back to approach
BackupProcess_DirectsApproach(f, pre, cfg, nudge) ==
    IF ~BackupHasBlockingObstacle(f, cfg, nudge)
    THEN Outcome("FINISHED", "SIDE_PASS_APPROACH_OBSTACLE", pre.path_data_,
                 << >>, << >>, << >>)
    ELSE IF ~PlanningOnReferenceLine(f)
    THEN Outcome("ERROR", pre.next_stage_, pre.path_data_,
                 AfterPlan(f, << >>), << >>, << "plan" >>)
    ELSE Outcome("RUNNING", pre.next_stage_, pre.path_data_,
                 AfterPlan(f, << >>), << >>, << "plan" >>)

BackupProcess(f, pre, cfg, nudge) ==
    IF ~BackupHasBlockingObstacle(f, cfg, nudge)
    THEN Outcome("FINISHED", "NO_STAGE", pre.path_data_, << >>, << >>, << >>)
    ELSE IF ~PlanningOnReferenceLine(f)
    THEN Outcome("ERROR", pre.next_stage_, pre.path_data_,
                 AfterPlan(f, << >>), << >>, << "plan" >>)
    ELSE Outcome("RUNNING", pre.next_stage_, pre.path_data_,
                 AfterPlan(f, << >>), << >>, << "plan" >>)

(***************************************************************************)
(* SidePassApproachObstacle::Process                                       *)
(***************************************************************************)
\* lines 126-147: TRUE when the loop body reaches `continue`
ApproachSkips(o, f, cfg) ==
    \/ SkippedBeforeLateralCheck(o, f.adc_sl_boundary, cfg)
    \/ o.start_l > 10 \/ o.end_l < -10

\* lines 124-149: the loop from obstacle i on (no break: it scans them all)
RECURSIVE ApproachScan(_, _, _, _)
ApproachScan(f, cfg, i, has_blocking_obstacle) ==
    IF i > Len(f.obstacles) THEN has_blocking_obstacle
    ELSE IF ApproachSkips(f.obstacles[i], f, cfg)
         THEN ApproachScan(f, cfg, i + 1, has_blocking_obstacle)
         ELSE ApproachScan(f, cfg, i + 1, TRUE)

ApproachHasBlockingObstacle(f, cfg) == ApproachScan(f, cfg, 1, FALSE)

\* lines 169-182: TRUE when the distance loop body reaches `continue`
DistanceSkips(o, f) ==
    \/ o.is_virtual
    \/ ~o.on_road
    \/ o.end_s <= f.adc_sl_boundary.start_s

\* lines 167-188: the loop from obstacle i on
RECURSIVE DistanceScan(_, _, _)
DistanceScan(f, i, front_obstacle_distance) ==
    IF i > Len(f.obstacles) THEN front_obstacle_distance
    ELSE IF DistanceSkips(f.obstacles[i], f)
         THEN DistanceScan(f, i + 1, front_obstacle_distance)
         ELSE LET distance == f.obstacles[i].start_s - f.adc_sl_boundary.end_s
              IN  DistanceScan(f, i + 1,
                      IF distance < front_obstacle_distance
                      THEN distance ELSE front_obstacle_distance)

\* variant: a negative distance clamped to zero
FrontObstacleDistance_Clamped(f) == Max(0, DistanceScan(f, 1, 10000))

FrontObstacleDistance(f) == DistanceScan(f, 1, 10000)

\* variant: `<=` for `<` on the speed at line 201
ApproachStopCondition_SpeedAtMost(adc_velocity, front_obstacle_distance, cfg) ==
    /\ adc_velocity <= cfg.approach_obstacle_max_stop_speed
    /\ front_obstacle_distance > cfg.approach_obstacle_min_stop_distance

\* lines 201-202
ApproachStopCondition(adc_velocity, front_obstacle_distance, cfg) ==
    /\ adc_velocity < cfg.approach_obstacle_max_stop_speed
    /\ front_obstacle_distance > cfg.approach_obstacle_min_stop_distance

\* variant: a failed replan is tried a second time before giving up
ApproachObstacleProcess_RetriesPlan(f, pre, cfg) ==
    IF ~ApproachHasBlockingObstacle(f, cfg)
    THEN Outcome("FINISHED", "NO_STAGE", pre.path_data_, << >>, << >>, << >>)
    ELSE IF ~PlanningOnReferenceLine(f)
    THEN Outcome("ERROR", pre.next_stage_, pre.path_data_,
                 AfterPlan(f, << >>), << >>, << "plan", "plan" >>)
    ELSE IF FrontObstacleDistance(f) < 0
    THEN Outcome("ERROR", pre.next_stage_, pre.path_data_,
                 AfterPlan(f, << >>), << >>, << "plan" >>)
    ELSE IF ApproachStopCondition(f.linear_velocity,
                                  FrontObstacleDistance(f), cfg)
    THEN Outcome("FINISHED", "SIDE_PASS_GENERATE_PATH", pre.path_data_,
                 AfterPlan(f, << >>), << >>, << "plan" >>)
    ELSE Outcome("RUNNING", pre.next_stage_, pre.path_data_,
                 AfterPlan(f, << >>), << >>, << "plan" >>)

\* variant: line 203 moved above the stop condition of lines 201-202
ApproachObstacleProcess_DirectsWhileRunning(f, pre, cfg) ==
    IF ~ApproachHasBlockingObstacle(f, cfg)
    THEN Outcome("FINISHED", "NO_STAGE", pre.path_data_, << >>, << >>, << >>)
    ELSE IF ~PlanningOnReferenceLine(f)
    THEN Outcome("ERROR", pre.next_stage_, pre.path_data_,
                 AfterPlan(f, << >>), << >>, << "plan" >>)
    ELSE IF FrontObstacleDistance(f) < 0
    THEN Outcome("ERROR", pre.next_stage_, pre.path_data_,
                 AfterPlan(f, << >>), << >>, << "plan" >>)
    ELSE IF ApproachStopCondition(f.linear_velocity,
                                  FrontObstacleDistance(f), cfg)
    THEN Outcome("FINISHED", "SIDE_PASS_GENERATE_PATH", pre.path_data_,
                 AfterPlan(f, << >>), << >>, << "plan" >>)
    ELSE Outcome("RUNNING", "SIDE_PASS_GENERATE_PATH", pre.path_data_,
                 AfterPlan(f, << >>), << >>, << "plan" >>)

ApproachObstacleProcess(f, pre, cfg) ==
    IF ~ApproachHasBlockingObstacle(f, cfg)
    THEN Outcome("FINISHED", "NO_STAGE", pre.path_data_, << >>, << >>, << >>)
    ELSE IF ~PlanningOnReferenceLine(f)
    THEN Outcome("ERROR", pre.next_stage_, pre.path_data_,
                 AfterPlan(f, << >>), << >>, << "plan" >>)
    ELSE IF FrontObstacleDistance(f) < 0
    THEN Outcome("ERROR", pre.next_stage_, pre.path_data_,
                 AfterPlan(f, << >>), << >>, << "plan" >>)
    ELSE IF ApproachStopCondition(f.linear_velocity,
                                  FrontObstacleDistance(f), cfg)
    THEN Outcome("FINISHED", "SIDE_PASS_GENERATE_PATH", pre.path_data_,
                 AfterPlan(f, << >>), << >>, << "plan" >>)
    ELSE Outcome("RUNNING", pre.next_stage_, pre.path_data_,
                 AfterPlan(f, << >>), << >>, << "plan" >>)

(***************************************************************************)
(* SidePassGeneratePath::Process                                           *)
(***************************************************************************)
\* variant: a generated path goes straight to the pass-obstacle stage
GeneratePathProcess_SkipsDetectSafety(f, pre) ==
    IF ~PlanningOnReferenceLine(f)
    THEN Outcome("FINISHED", "SIDE_PASS_BACKUP", pre.path_data_,
                 AfterPlan(f, << >>), << >>, << "plan" >>)
    ELSE IF f.num_points > 0
    THEN Outcome("FINISHED", "SIDE_PASS_PASS_OBSTACLE",
                 AfterPlan(f, << >>), AfterPlan(f, << >>), << >>,
                 << "plan", "store" >>)
    ELSE Outcome("RUNNING", pre.next_stage_,
                 AfterPlan(f, << >>), AfterPlan(f, << >>), << >>,
                 << "plan", "store" >>)

\* variant: a failed replan is an error, as in the other stages
GeneratePathProcess_ErrorOnPlanFailure(f, pre) ==
    IF ~PlanningOnReferenceLine(f)
    THEN Outcome("ERROR", pre.next_stage_, pre.path_data_,
                 AfterPlan(f, << >>), << >>, << "plan" >>)
    ELSE IF f.num_points > 0
    THEN Outcome("FINISHED", "SIDE_PASS_STOP_ON_WAITPOINT",
                 AfterPlan(f, << >>), AfterPlan(f, << >>), << >>,
                 << "plan", "store" >>)
    ELSE Outcome("RUNNING", pre.next_stage_,
                 AfterPlan(f, << >>), AfterPlan(f, << >>), << >>,
                 << "plan", "store" >>)

\* variant: line 221 left out, the stage directs without storing the path
GeneratePathProcess_DirectsWithoutStore(f, pre) ==
    IF ~PlanningOnReferenceLine(f)
    THEN Outcome("FINISHED", "SIDE_PASS_BACKUP", pre.path_data_,
                 AfterPlan(f, << >>), << >>, << "plan" >>)
    ELSE IF f.num_points > 0
    THEN Outcome("FINISHED", "SIDE_PASS_STOP_ON_WAITPOINT",
                 pre.path_data_, AfterPlan(f, << >>), << >>, << "plan" >>)
    ELSE Outcome("RUNNING", pre.next_stage_,
                 pre.path_data_, AfterPlan(f, << >>), << >>, << "plan" >>)

\* variant: line 221 moved inside the trajectory test of line 222
GeneratePathProcess_StoresOnlyWithTrajectory(f, pre) ==
    IF ~PlanningOnReferenceLine(f)
    THEN Outcome("FINISHED", "SIDE_PASS_BACKUP", pre.path_data_,
                 AfterPlan(f, << >>), << >>, << "plan" >>)
    ELSE IF f.num_points > 0
    THEN Outcome("FINISHED", "SIDE_PASS_STOP_ON_WAITPOINT",
                 AfterPlan(f, << >>), AfterPlan(f, << >>), << >>,
                 << "plan", "store" >>)
    ELSE Outcome("RUNNING", pre.next_stage_,
                 pre.path_data_, AfterPlan(f, << >>), << >>, << "plan" >>)

GeneratePathProcess(f, pre) ==
    IF ~PlanningOnReferenceLine(f)
    THEN Outcome("FINISHED", "SIDE_PASS_BACKUP", pre.path_data_,
                 AfterPlan(f, << >>), << >>, << "plan" >>)
    ELSE IF f.num_points > 0
    THEN Outcome("FINISHED", "SIDE_PASS_STOP_ON_WAITPOINT",
                 AfterPlan(f, << >>), AfterPlan(f, << >>), << >>,
                 << "plan", "store" >>)
    ELSE Outcome("RUNNING", pre.next_stage_,
                 AfterPlan(f, << >>), AfterPlan(f, << >>), << >>,
                 << "plan", "store" >>)

(***************************************************************************)
(* Path hand-off (PathData, whose code is outside this file): a path is    *)
(* the sequence of its points' stations.                                   *)
(***************************************************************************)
\* PathData::UpdateFrenetFramePath(reference_line)
UpdateFrenetFramePath(path, f) == [ok |-> f.frenet_ok, path |-> path]

\* PathData::LeftTrimWithRefS(ref_s, ref_l)
LeftTrimWithRefS(path, ref_s) ==
    IF path = << >> \/ ref_s < path[1] \/ ref_s > path[Len(path)]
    THEN [ok |-> FALSE, path |-> path]
    ELSE [ok |-> TRUE, path |-> SelectSeq(path, LAMBDA s : s >= ref_s)]

(***************************************************************************)
(* SidePassDetectSafety::Process                                           *)
(***************************************************************************)
\* std::string::substr(0, 3)
Substr03(id) == SubSeq(id, 1, Min(3, Len(id)))

\* variant: without the station test of line 279
IsUnsafeMarker_AnyStation(o, adc_front_edge_s) ==
    /\ o.is_virtual
    /\ Substr03(o.id) = << "S", "P", "_" >>

\* lines 278-279
IsUnsafeMarker(o, adc_front_edge_s) ==
    /\ o.is_virtual
    /\ Substr03(o.id) = << "S", "P", "_" >>
    /\ o.start_s >= adc_front_edge_s

\* lines 271-283
RECURSIVE SafetyScan(_, _)
SafetyScan(f, i) ==
    IF i > Len(f.obstacles) THEN TRUE
    ELSE IF IsUnsafeMarker(f.obstacles[i], f.adc_sl_boundary.end_s)
         THEN FALSE
         ELSE SafetyScan(f, i + 1)

IsSafe(f) == SafetyScan(f, 1)

\* variant: the result of LeftTrimWithRefS is not tested
DetectSafetyProcess_IgnoresTrimFailure(f, pre) ==
    LET upd  == UpdateFrenetFramePath(pre.path_data_, f)
        trim == LeftTrimWithRefS(upd.path, f.adc_frenet_s)
    IN  IF ~upd.ok
        THEN Outcome("ERROR", pre.next_stage_, upd.path, << >>, << >>,
                     << "update" >>)
        ELSE IF ~PlanningOnReferenceLine(f)
        THEN Outcome("ERROR", pre.next_stage_, trim.path,
                     AfterPlan(f, trim.path), << trim.path >>,
                     << "update", "trim", "writeback", "debug", "plan" >>)
        ELSE IF IsSafe(f)
        THEN Outcome("FINISHED", "SIDE_PASS_PASS_OBSTACLE", trim.path,
                     AfterPlan(f, trim.path), << trim.path >>,
                     << "update", "trim", "writeback", "debug", "plan" >>)
        ELSE Outcome("RUNNING", pre.next_stage_, trim.path,
                     AfterPlan(f, trim.path), << trim.path >>,
                     << "update", "trim", "writeback", "debug", "plan" >>)

\* variant: lines 259-266 moved above the write-back of line 257
DetectSafetyProcess_DebugBeforeWriteBack(f, pre) ==
    LET upd  == UpdateFrenetFramePath(pre.path_data_, f)
        trim == LeftTrimWithRefS(upd.path, f.adc_frenet_s)
    IN  IF ~upd.ok
        THEN Outcome("ERROR", pre.next_stage_, upd.path, << >>, << >>,
                     << "update" >>)
        ELSE IF ~trim.ok
        THEN Outcome("ERROR", pre.next_stage_, trim.path, << >>, << >>,
                     << "update", "trim" >>)
        ELSE IF ~PlanningOnReferenceLine(f)
        THEN Outcome("ERROR", pre.next_stage_, trim.path,
                     AfterPlan(f, trim.path), << << >> >>,
                     << "update", "trim", "debug", "writeback", "plan" >>)
        ELSE IF IsSafe(f)
        THEN Outcome("FINISHED", "SIDE_PASS_PASS_OBSTACLE", trim.path,
                     AfterPlan(f, trim.path), << << >> >>,
                     << "update", "trim", "debug", "writeback", "plan" >>)
        ELSE Outcome("RUNNING", pre.next_stage_, trim.path,
                     AfterPlan(f, trim.path), << << >> >>,
                     << "update", "trim", "debug", "writeback", "plan" >>)

DetectSafetyProcess(f, pre) ==
    LET upd  == UpdateFrenetFramePath(pre.path_data_, f)
        trim == LeftTrimWithRefS(upd.path, f.adc_frenet_s)
    IN  IF ~upd.ok
        THEN Outcome("ERROR", pre.next_stage_, upd.path, << >>, << >>,
                     << "update" >>)
        ELSE IF ~trim.ok
        THEN Outcome("ERROR", pre.next_stage_, trim.path, << >>, << >>,
                     << "update", "trim" >>)
        ELSE IF ~PlanningOnReferenceLine(f)
        THEN Outcome("ERROR", pre.next_stage_, trim.path,
                     AfterPlan(f, trim.path), << trim.path >>,
                     << "update", "trim", "writeback", "debug", "plan" >>)
        ELSE IF IsSafe(f)
        THEN Outcome("FINISHED", "SIDE_PASS_PASS_OBSTACLE", trim.path,
                     AfterPlan(f, trim.path), << trim.path >>,
                     << "update", "trim", "writeback", "debug", "plan" >>)
        ELSE Outcome("RUNNING", pre.next_stage_, trim.path,
                     AfterPlan(f, trim.path), << trim.path >>,
                     << "update", "trim", "writeback", "debug", "plan" >>)

(***************************************************************************)
(* SidePassPassObstacle::Process                                           *)
(***************************************************************************)
\* variant: `&&` for `||` at line 354
PassExitCondition_Both(adc_end_s, sl_point_s, adc_velocity, cfg) ==
    LET distance_to_path_end == sl_point_s - cfg.side_pass_exit_distance
    IN  /\ adc_end_s > distance_to_path_end
        /\ adc_velocity < cfg.approach_obstacle_max_stop_speed

\* lines 349-355
PassExitCondition(adc_end_s, sl_point_s, adc_velocity, cfg) ==
    LET distance_to_path_end == sl_point_s - cfg.side_pass_exit_distance
    IN  \/ adc_end_s > distance_to_path_end
        \/ adc_velocity < cfg.approach_obstacle_max_stop_speed

\* variant: lines 320-330 moved below the replan of line 332
PassObstacleProcess_RecordsAfterPlan(f, pre, cfg) ==
    LET upd  == UpdateFrenetFramePath(pre.path_data_, f)
        trim == LeftTrimWithRefS(upd.path, f.adc_frenet_s)
    IN  IF ~upd.ok
        THEN Outcome("ERROR", pre.next_stage_, upd.path, << >>, << >>,
                     << "update" >>)
        ELSE IF ~trim.ok
        THEN Outcome("ERROR", pre.next_stage_, trim.path, << >>, << >>,
                     << "update", "trim" >>)
        ELSE IF ~PlanningOnReferenceLine(f)
        THEN Outcome("ERROR", pre.next_stage_, trim.path,
                     AfterPlan(f, trim.path), << >>,
                     << "update", "trim", "writeback", "plan" >>)
        ELSE IF ~f.xy_to_sl.ok
        THEN Outcome("ERROR", pre.next_stage_, trim.path,
                     AfterPlan(f, trim.path), << AfterPlan(f, trim.path) >>,
                     << "update", "trim", "writeback", "plan", "debug" >>)
        ELSE IF PassExitCondition(f.adc_sl_boundary.end_s, f.xy_to_sl.s,
                                  f.linear_velocity, cfg)
        THEN Outcome("FINISHED", "NO_STAGE", trim.path,
                     AfterPlan(f, trim.path), << AfterPlan(f, trim.path) >>,
                     << "update", "trim", "writeback", "plan", "debug" >>)
        ELSE Outcome("RUNNING", pre.next_stage_, trim.path,
                     AfterPlan(f, trim.path), << AfterPlan(f, trim.path) >>,
                     << "update", "trim", "writeback", "plan", "debug" >>)

PassObstacleProcess(f, pre, cfg) ==
    LET upd  == UpdateFrenetFramePath(pre.path_data_, f)
        trim == LeftTrimWithRefS(upd.path, f.adc_frenet_s)
    IN  IF ~upd.ok
        THEN Outcome("ERROR", pre.next_stage_, upd.path, << >>, << >>,
                     << "update" >>)
        ELSE IF ~trim.ok
        THEN Outcome("ERROR", pre.next_stage_, trim.path, << >>, << >>,
                     << "update", "trim" >>)
        ELSE IF ~PlanningOnReferenceLine(f)
        THEN Outcome("ERROR", pre.next_stage_, trim.path,
                     AfterPlan(f, trim.path), << trim.path >>,
                     << "update", "trim", "writeback", "debug", "plan" >>)
        ELSE IF ~f.xy_to_sl.ok
        THEN Outcome("ERROR", pre.next_stage_, trim.path,
                     AfterPlan(f, trim.path), << trim.path >>,
                     << "update", "trim", "writeback", "debug", "plan" >>)
        ELSE IF PassExitCondition(f.adc_sl_boundary.end_s, f.xy_to_sl.s,
                                  f.linear_velocity, cfg)
        THEN Outcome("FINISHED", "NO_STAGE", trim.path,
                     AfterPlan(f, trim.path), << trim.path >>,
                     << "update", "trim", "writeback", "debug", "plan" >>)
        ELSE Outcome("RUNNING", pre.next_stage_, trim.path,
                     AfterPlan(f, trim.path), << trim.path >>,
                     << "update", "trim", "writeback", "debug", "plan" >>)

(***************************************************************************)
(* Frames a cycle can be handed.  Each stage's set varies what that stage  *)
(* reads and keeps the rest at DefaultFrame.                               *)
(***************************************************************************)
BackupFrames ==
    { [DefaultFrame EXCEPT !.obstacles = ob, !.lane = w, !.plan_ok = p] :
        ob \in ObstacleLists, w \in LaneWidths, p \in BOOLEAN }

ApproachFrames ==
    { [DefaultFrame EXCEPT !.obstacles = ob, !.linear_velocity = v,
                           !.plan_ok = p] :
        ob \in ObstacleLists, v \in Velocities, p \in BOOLEAN }

GenerateFrames ==
    { [DefaultFrame EXCEPT !.obstacles = ob, !.plan_ok = p,
                           !.plan_path = pp, !.num_points = n] :
        ob \in { l \in ObstacleLists : Len(l) <= 1 },
        p \in BOOLEAN, pp \in PlanPaths, n \in {0, 1} }

DetectFrames ==
    { [DefaultFrame EXCEPT !.obstacles = ob, !.adc_sl_boundary = b,
                           !.frenet_ok = u, !.adc_frenet_s = b.start_s + s,
                           !.plan_ok = p] :
        ob \in ObstacleLists,
        b \in { [start_s |-> -50, end_s |-> 0], [start_s |-> 1, end_s |-> 51] },
        u \in BOOLEAN, s \in {25, 50, 650}, p \in BOOLEAN }

PassFrames ==
    { [DefaultFrame EXCEPT !.adc_sl_boundary = b, !.linear_velocity = v,
                           !.frenet_ok = u, !.adc_frenet_s = b.start_s + s,
                           !.plan_path = << b.start_s + 25, 550 >>,
                           !.plan_ok = p, !.xy_to_sl = x] :
        b \in { [start_s |-> 450, end_s |-> 500],
                [start_s |-> 470, end_s |-> 520],
                [start_s |-> 480, end_s |-> 530] },
        v \in Velocities, u \in BOOLEAN, s \in {25, 125}, p \in BOOLEAN,
        x \in { [ok |-> FALSE, s |-> 0], [ok |-> TRUE, s |-> 550] } }

(***************************************************************************)
(* The scenario: one action per stage's Process, with the dispatch of      *)
(* Scenario::Process after it.                                             *)
(***************************************************************************)
Init ==
    /\ stage \in {"SIDE_PASS_BACKUP", "SIDE_PASS_APPROACH_OBSTACLE"}
    /\ ran = "NO_STAGE"
    /\ status = "READY"
    /\ next_stage_ = InitialNextStage(stage)
    /\ path_data_ = << >>
    /\ scenario_config_ \in Configs
    /\ FLAGS_static_decision_nudge_l_buffer \in NudgeBuffers
    /\ frame = DefaultFrame
    /\ rfl_path_data = << >>
    /\ debug_path = << >>
    /\ log = << >>

\* what the stage object about to run holds: a stage entered in this cycle
\* is a new object
Pre ==
    [next_stage_ |-> IF ran = stage THEN next_stage_
                     ELSE InitialNextStage(stage),
     path_data_ |-> path_data_]

Cycle(s, f, out) ==
    /\ stage = s
    /\ status # "ERROR"
    /\ frame' = f
    /\ ran' = s
    /\ status' = out.status
    /\ next_stage_' = out.next_stage_
    /\ path_data_' = out.path_data_
    /\ rfl_path_data' = out.rfl_path_data
    /\ debug_path' = out.debug_path
    /\ log' = out.log
    /\ stage' = NextStageToRun(s, out.status, out.next_stage_)
    /\ UNCHANGED << scenario_config_, FLAGS_static_decision_nudge_l_buffer >>

Backup ==
    \E f \in BackupFrames :
        Cycle("SIDE_PASS_BACKUP", f,
              BackupProcess(f, Pre, scenario_config_,
                            FLAGS_static_decision_nudge_l_buffer))

ApproachObstacle ==
    \E f \in ApproachFrames :
        Cycle("SIDE_PASS_APPROACH_OBSTACLE", f,
              ApproachObstacleProcess(f, Pre, scenario_config_))

GeneratePath ==
    \E f \in GenerateFrames :
        Cycle("SIDE_PASS_GENERATE_PATH", f, GeneratePathProcess(f, Pre))

DetectSafety ==
    \E f \in DetectFrames :
        Cycle("SIDE_PASS_DETECT_SAFETY", f, DetectSafetyProcess(f, Pre))

PassObstacle ==
    \E f \in PassFrames :
        Cycle("SIDE_PASS_PASS_OBSTACLE", f,
              PassObstacleProcess(f, Pre, scenario_config_))

Next ==
    \/ Backup
    \/ ApproachObstacle
    \/ GeneratePath
    \/ DetectSafety
    \/ PassObstacle

Spec == Init /\ [][Next]_vars

TypeOK ==
    /\ stage \in StageTypes
    /\ ran \in StageTypes
    /\ status \in StageStatuses
    /\ next_stage_ \in StageTypes

(***************************************************************************)
(* Vocabulary of the properties, stated from the scene and not through the *)
(* scans above.                                                            *)
(***************************************************************************)
ObstaclesOf(f) == { f.obstacles[i] : i \in 1 .. Len(f.obstacles) }

\* virtual, non-static, faster than the cutoff, at or behind the ego's
\* end-station, or more than 15 m beyond it
OutsideBlockingScope(o, f) ==
    \/ o.is_virtual
    \/ ~o.is_static
    \/ o.speed > scenario_config_.block_obstacle_min_speed
    \/ o.start_s <= f.adc_sl_boundary.end_s
    \/ o.start_s > f.adc_sl_boundary.end_s + 150

\* min(left+right, max(left - end_l, right + start_l)) - nudge_buffer
LateralEncroachment(o, left, right, nudge) ==
    LET a == left - o.end_l
        b == right + o.start_l
        m == IF a > b THEN a ELSE b
    IN  (IF left + right < m THEN left + right ELSE m) - nudge

\* a blocker of the corridor filter: in scope and overlapping [-1 m, 1 m]
CorridorBlocker(o, f) ==
    /\ ~OutsideBlockingScope(o, f)
    /\ o.start_l <= 10
    /\ o.end_l >= -10

\* nearest-ahead-on-road distance: minimum of start_station - ego end_station
\* over non-virtual on-road obstacles ending beyond the ego's start-station,
\* sentinel 1000 m if none
NearestAheadOnRoad(f) ==
    LET D == { o.start_s - f.adc_sl_boundary.end_s :
                 o \in { q \in ObstaclesOf(f) :
                           /\ ~q.is_virtual
                           /\ q.on_road
                           /\ q.end_s > f.adc_sl_boundary.start_s } }
    IN  IF D = {} THEN 10000
        ELSE CHOOSE d \in D : \A e \in D : d <= e

\* the hand-off of the stored path succeeds for frame f
HandOffSucceeds(path, f) ==
    /\ UpdateFrenetFramePath(path, f).ok
    /\ LeftTrimWithRefS(UpdateFrenetFramePath(path, f).path,
                        f.adc_frenet_s).ok

DirectiveTable ==
    { << "SIDE_PASS_GENERATE_PATH", "SIDE_PASS_STOP_ON_WAITPOINT" >>,
      << "SIDE_PASS_GENERATE_PATH", "SIDE_PASS_BACKUP" >>,
      << "SIDE_PASS_DETECT_SAFETY", "SIDE_PASS_PASS_OBSTACLE" >>,
      << "SIDE_PASS_BACKUP", "NO_STAGE" >>,
      << "SIDE_PASS_PASS_OBSTACLE", "NO_STAGE" >>,
      << "SIDE_PASS_APPROACH_OBSTACLE", "NO_STAGE" >>,
      << "SIDE_PASS_APPROACH_OBSTACLE", "SIDE_PASS_GENERATE_PATH" >> }

(***************************************************************************)
(* C1.  Every directive issued with FINISHED is in the transition table:   *)
(* GENERATE_PATH directs the detect-safety (stop-on-waypoint) stage when   *)
(* the replan succeeded and BACKUP when it failed, DETECT_SAFETY directs   *)
(* PASS_OBSTACLE, BACKUP and PASS_OBSTACLE direct NO_STAGE,                *)
(* APPROACH_OBSTACLE directs NO_STAGE or GENERATE_PATH; and the stage      *)
(* invoked next is the stage that ran or the one its directive names.      *)
(***************************************************************************)
C1_DirectivesInTable ==
    /\ status = "FINISHED" => << ran, next_stage_ >> \in DirectiveTable
    /\ (status = "FINISHED" /\ ran = "SIDE_PASS_GENERATE_PATH") =>
           next_stage_ = IF frame.plan_ok THEN "SIDE_PASS_STOP_ON_WAITPOINT"
                         ELSE "SIDE_PASS_BACKUP"
    /\ status \in {"RUNNING", "ERROR"} => stage = ran
    /\ (status = "FINISHED" /\ ran = "SIDE_PASS_GENERATE_PATH") =>
           stage \in {"SIDE_PASS_DETECT_SAFETY", "SIDE_PASS_BACKUP"}
    /\ (status = "FINISHED" /\ ran = "SIDE_PASS_DETECT_SAFETY") =>
           stage = "SIDE_PASS_PASS_OBSTACLE"

C1_Witness ==
    /\ ran = "SIDE_PASS_PASS_OBSTACLE"
    /\ status = "FINISHED"
    /\ next_stage_ = "NO_STAGE"

(***************************************************************************)
(* C2.  A GENERATE_PATH cycle whose replan fails returns FINISHED with the *)
(* directive BACKUP, whatever the scene holds.                             *)
(***************************************************************************)
C2_GenerateDegradesToBackup ==
    (ran = "SIDE_PASS_GENERATE_PATH" /\ ~frame.plan_ok) =>
        /\ status = "FINISHED"
        /\ next_stage_ = "SIDE_PASS_BACKUP"
        /\ stage = "SIDE_PASS_BACKUP"

C2_Witness ==
    /\ ran = "SIDE_PASS_GENERATE_PATH"
    /\ ~frame.plan_ok
    /\ frame.obstacles # << >>
    /\ status = "FINISHED"

(***************************************************************************)
(* C3.  A replan failure in BACKUP or APPROACH_OBSTACLE after the stage's  *)
(* filter found a blocker, or in DETECT_SAFETY or PASS_OBSTACLE after the  *)
(* hand-off succeeded, ends the cycle with ERROR, leaves the next-stage    *)
(* directive as it was before the cycle and keeps the stage.               *)
(***************************************************************************)
C3_ReplanFailureCase ==
    /\ ~frame'.plan_ok
    /\ \/ /\ ran' = "SIDE_PASS_BACKUP"
          /\ \E o \in ObstaclesOf(frame') :
                 /\ ~OutsideBlockingScope(o, frame')
                 /\ LateralEncroachment(o, frame'.lane.left, frame'.lane.right,
                        FLAGS_static_decision_nudge_l_buffer) <= 3
       \/ /\ ran' = "SIDE_PASS_APPROACH_OBSTACLE"
          /\ \E o \in ObstaclesOf(frame') : CorridorBlocker(o, frame')
       \/ /\ ran' \in {"SIDE_PASS_DETECT_SAFETY", "SIDE_PASS_PASS_OBSTACLE"}
          /\ HandOffSucceeds(path_data_, frame')

C3_ReplanFailureIsError ==
    [][ C3_ReplanFailureCase =>
            /\ status' = "ERROR"
            /\ next_stage_' = Pre.next_stage_
            /\ stage' = stage ]_vars

C3_Witness ==
    /\ ran = "SIDE_PASS_PASS_OBSTACLE"
    /\ ~frame.plan_ok
    /\ frame.frenet_ok
    /\ log = << "update", "trim", "writeback", "debug", "plan" >>
    /\ status = "ERROR"

(***************************************************************************)
(* C4.  When every obstacle of the scene is virtual, non-static, faster    *)
(* than the cutoff, at or behind the ego's end-station or more than 15 m   *)
(* beyond it, neither the BACKUP filter nor the APPROACH_OBSTACLE filter   *)
(* finds a blocker, whatever the lateral positions, and the stage returns  *)
(* FINISHED with directive NO_STAGE.                                       *)
(***************************************************************************)
C4_OutOfScopeNeverBlocks ==
    ( /\ ran \in {"SIDE_PASS_BACKUP", "SIDE_PASS_APPROACH_OBSTACLE"}
      /\ \A o \in ObstaclesOf(frame) : OutsideBlockingScope(o, frame) ) =>
        /\ status = "FINISHED"
        /\ next_stage_ = "NO_STAGE"
        /\ log = << >>
        /\ ~BackupHasBlockingObstacle(frame, scenario_config_,
                                      FLAGS_static_decision_nudge_l_buffer)
        /\ ~ApproachHasBlockingObstacle(frame, scenario_config_)

C4_Witness ==
    /\ ran = "SIDE_PASS_BACKUP"
    /\ Len(frame.obstacles) >= 2
    /\ \A o \in ObstaclesOf(frame) :
           /\ OutsideBlockingScope(o, frame)
           /\ LateralEncroachment(o, frame.lane.left, frame.lane.right,
                  FLAGS_static_decision_nudge_l_buffer) <= 3
           /\ o.start_l <= 10 /\ o.end_l >= -10
    /\ status = "FINISHED"

(***************************************************************************)
(* C5.  As claimed: a BACKUP cycle finds a blocker whenever some obstacle  *)
(* passing the virtual/static/speed/window checks has a lateral-           *)
(* encroachment value above 0.3 m.                                         *)
(***************************************************************************)
C5_Original ==
    ( /\ ran = "SIDE_PASS_BACKUP"
      /\ \E o \in ObstaclesOf(frame) :
             /\ ~OutsideBlockingScope(o, frame)
             /\ LateralEncroachment(o, frame.lane.left, frame.lane.right,
                    FLAGS_static_decision_nudge_l_buffer) > 3 ) =>
        status \in {"RUNNING", "ERROR"}

(***************************************************************************)
(* C5, amended.  A BACKUP cycle finds a blocker (and replans, returning    *)
(* RUNNING or ERROR) exactly when some obstacle passing the checks has a   *)
(* lateral-encroachment value of at most 0.3 m; otherwise it returns       *)
(* FINISHED with NO_STAGE.                                                 *)
(***************************************************************************)
C5_BlockerIffWidthAtMostThreshold ==
    ran = "SIDE_PASS_BACKUP" =>
        LET blocked ==
                \E o \in ObstaclesOf(frame) :
                    /\ ~OutsideBlockingScope(o, frame)
                    /\ LateralEncroachment(o, frame.lane.left,
                           frame.lane.right,
                           FLAGS_static_decision_nudge_l_buffer) <= 3
        IN  /\ blocked <=> status \in {"RUNNING", "ERROR"}
            /\ ~blocked <=> (status = "FINISHED" /\ next_stage_ = "NO_STAGE")

C5_Witness ==
    /\ ran = "SIDE_PASS_BACKUP"
    /\ status = "RUNNING"
    /\ \E o \in ObstaclesOf(frame) :
           /\ ~OutsideBlockingScope(o, frame)
           /\ LateralEncroachment(o, frame.lane.left, frame.lane.right,
                  FLAGS_static_decision_nudge_l_buffer) = 3

(***************************************************************************)
(* C6.  The scene of the example: one static, non-virtual, in-window       *)
(* obstacle with start_l = -0.5 and end_l = 2.0, lane right width 1.8,     *)
(* nudge buffer 0.3.                                                       *)
(***************************************************************************)
C6_Scene(left) ==
    /\ ran = "SIDE_PASS_BACKUP"
    /\ FLAGS_static_decision_nudge_l_buffer = 3
    /\ frame.lane = [left |-> left, right |-> 18]
    /\ Len(frame.obstacles) = 1
    /\ ~OutsideBlockingScope(frame.obstacles[1], frame)
    /\ frame.obstacles[1].start_l = -5
    /\ frame.obstacles[1].end_l = 20

(***************************************************************************)
(* C6.  As claimed: with lane left width 1.8 the obstacle is not           *)
(* blocking; with lane left width 0.6 it is blocking.                      *)
(***************************************************************************)
C6_Original ==
    /\ C6_Scene(18) => (status = "FINISHED" /\ next_stage_ = "NO_STAGE")
    /\ C6_Scene(6) => status \in {"RUNNING", "ERROR"}

(***************************************************************************)
(* C6, amended.  With lane left width 1.8 the driving width is 1.0 m and   *)
(* the obstacle is not blocking; with lane left width 0.6 the driving      *)
(* width is still 1.0 m (the right-hand term 1.8 - 0.5 decides it) and the *)
(* obstacle is still not blocking: BACKUP returns FINISHED with NO_STAGE.  *)
(***************************************************************************)
C6_NarrowLeftStillNotBlocking ==
    \A left \in {18, 6} :
        C6_Scene(left) =>
            /\ status = "FINISHED"
            /\ next_stage_ = "NO_STAGE"
            /\ DrivingWidth(frame.obstacles[1], left, 18, 3) = 10

C6_Witness ==
    /\ C6_Scene(6)
    /\ status = "FINISHED"

(***************************************************************************)
(* C7.  Monotonicity: with the obstacle's lateral extent and the nudge     *)
(* buffer fixed, a lane with smaller left and/or right width never gives a *)
(* larger driving width, so a scene in which the BACKUP cycle found a      *)
(* blocker has a blocker under every narrower lane too.                    *)
(***************************************************************************)
NarrowerWidths == {0, 6, 12, 18}

C7_NarrowerLaneStaysBlocking ==
    ran = "SIDE_PASS_BACKUP" =>
        \A l \in NarrowerWidths, r \in NarrowerWidths :
            (l <= frame.lane.left /\ r <= frame.lane.right) =>
                /\ \A o \in ObstaclesOf(frame) :
                       DrivingWidth(o, l, r,
                           FLAGS_static_decision_nudge_l_buffer)
                       <= DrivingWidth(o, frame.lane.left, frame.lane.right,
                              FLAGS_static_decision_nudge_l_buffer)
                /\ status \in {"RUNNING", "ERROR"} =>
                       BackupHasBlockingObstacle(
                           [frame EXCEPT !.lane = [left |-> l, right |-> r]],
                           scenario_config_,
                           FLAGS_static_decision_nudge_l_buffer)

C7_Witness ==
    /\ ran = "SIDE_PASS_BACKUP"
    /\ status = "RUNNING"
    /\ frame.lane = [left |-> 18, right |-> 18]
    /\ \E o \in ObstaclesOf(frame) :
           DrivingWidth(o, 6, 18, FLAGS_static_decision_nudge_l_buffer)
           < DrivingWidth(o, 18, 18, FLAGS_static_decision_nudge_l_buffer)

(***************************************************************************)
(* C8.  In an APPROACH_OBSTACLE cycle that found a blocker, replanned      *)
(* successfully and computed a non-negative nearest-ahead distance, the    *)
(* outcome is FINISHED with directive GENERATE_PATH when the ego speed is  *)
(* strictly below the approach-stop speed and the distance strictly above  *)
(* the minimum stop distance, and RUNNING in every other case.             *)
(***************************************************************************)
C8_Case ==
    /\ ran = "SIDE_PASS_APPROACH_OBSTACLE"
    /\ \E o \in ObstaclesOf(frame) : CorridorBlocker(o, frame)
    /\ frame.plan_ok

C8_StopConditionDecides ==
    (C8_Case /\ NearestAheadOnRoad(frame) >= 0) =>
        IF /\ frame.linear_velocity
                  < scenario_config_.approach_obstacle_max_stop_speed
           /\ NearestAheadOnRoad(frame)
                  > scenario_config_.approach_obstacle_min_stop_distance
        THEN status = "FINISHED" /\ next_stage_ = "SIDE_PASS_GENERATE_PATH"
        ELSE status = "RUNNING"

C8_Witness ==
    /\ C8_Case
    /\ scenario_config_.approach_obstacle_max_stop_speed = 20
    /\ scenario_config_.approach_obstacle_min_stop_distance = 50
    /\ frame.linear_velocity = 10
    /\ NearestAheadOnRoad(frame) = 60
    /\ status = "FINISHED"
    /\ next_stage_ = "SIDE_PASS_GENERATE_PATH"

(***************************************************************************)
(* C9.  In an APPROACH_OBSTACLE cycle that found a blocker and replanned   *)
(* successfully, a negative nearest-ahead-on-road distance ends the cycle  *)
(* with ERROR: it is not clamped, the stage neither stays RUNNING nor      *)
(* directs GENERATE_PATH.                                                  *)
(***************************************************************************)
C9_NegativeDistanceIsError ==
    (C8_Case /\ NearestAheadOnRoad(frame) < 0) =>
        /\ status = "ERROR"
        /\ next_stage_ # "SIDE_PASS_GENERATE_PATH"
        /\ stage = "SIDE_PASS_APPROACH_OBSTACLE"
        /\ FrontObstacleDistance(frame) = NearestAheadOnRoad(frame)

C9_Witness ==
    /\ C8_Case
    /\ NearestAheadOnRoad(frame) < 0
    /\ frame.linear_velocity
           < scenario_config_.approach_obstacle_max_stop_speed
    /\ status = "ERROR"

(***************************************************************************)
(* C10.  In a PASS_OBSTACLE cycle whose hand-off, replan and end-point     *)
(* conversion succeeded, the outcome is FINISHED with directive NO_STAGE   *)
(* exactly when the ego's end-station exceeds path_end_station minus the   *)
(* exit margin or the ego speed is below the approach-stop speed, and      *)
(* RUNNING otherwise.  With path end 55 m and margin 3 m at a speed not    *)
(* below the stop speed: end-station 50 m stays RUNNING, 53 m exits.       *)
(***************************************************************************)
C10_Case ==
    /\ ran' = "SIDE_PASS_PASS_OBSTACLE"
    /\ HandOffSucceeds(path_data_, frame')
    /\ frame'.plan_ok
    /\ frame'.xy_to_sl.ok

C10_Exits ==
    \/ frame'.adc_sl_boundary.end_s
           > frame'.xy_to_sl.s - scenario_config_.side_pass_exit_distance
    \/ frame'.linear_velocity
           < scenario_config_.approach_obstacle_max_stop_speed

C10_Example(end_s) ==
    /\ frame'.xy_to_sl.s = 550
    /\ scenario_config_.side_pass_exit_distance = 30
    /\ frame'.adc_sl_boundary.end_s = end_s
    /\ frame'.linear_velocity
           >= scenario_config_.approach_obstacle_max_stop_speed

C10_ExitCondition ==
    [][ C10_Case =>
            /\ IF C10_Exits
               THEN status' = "FINISHED" /\ next_stage_' = "NO_STAGE"
               ELSE status' = "RUNNING"
            /\ C10_Example(500) => status' = "RUNNING"
            /\ C10_Example(530) => status' = "FINISHED" ]_vars

C10_Witness ==
    /\ ran = "SIDE_PASS_PASS_OBSTACLE"
    /\ status = "FINISHED"
    /\ next_stage_ = "NO_STAGE"
    /\ frame.adc_sl_boundary.end_s = 500
    /\ frame.xy_to_sl = [ok |-> TRUE, s |-> 550]
    /\ frame.linear_velocity
           < scenario_config_.approach_obstacle_max_stop_speed

(***************************************************************************)
(* C11.  In a DETECT_SAFETY cycle whose hand-off and replan succeeded, the *)
(* outcome is RUNNING exactly when some obstacle is virtual, has an        *)
(* identifier beginning with "SP_" and starts at or beyond the ego's       *)
(* end-station; otherwise it is FINISHED with directive PASS_OBSTACLE.     *)
(***************************************************************************)
HasManeuverPrefix(o) ==
    /\ Len(o.id) >= 3
    /\ o.id[1] = "S" /\ o.id[2] = "P" /\ o.id[3] = "_"

UnsafeMarkerIn(f) ==
    \E o \in ObstaclesOf(f) :
        /\ o.is_virtual
        /\ HasManeuverPrefix(o)
        /\ o.start_s >= f.adc_sl_boundary.end_s

C11_Case ==
    /\ ran' = "SIDE_PASS_DETECT_SAFETY"
    /\ HandOffSucceeds(path_data_, frame')
    /\ frame'.plan_ok

C11_RunningIffUnsafeMarker ==
    [][ C11_Case =>
            IF UnsafeMarkerIn(frame')
            THEN status' = "RUNNING" /\ stage' = "SIDE_PASS_DETECT_SAFETY"
            ELSE /\ status' = "FINISHED"
                 /\ next_stage_' = "SIDE_PASS_PASS_OBSTACLE" ]_vars

C11_Witness ==
    /\ ran = "SIDE_PASS_DETECT_SAFETY"
    /\ status = "FINISHED"
    /\ next_stage_ = "SIDE_PASS_PASS_OBSTACLE"
    /\ \E o \in ObstaclesOf(frame) :
           /\ o.is_virtual /\ HasManeuverPrefix(o)
           /\ o.start_s < frame.adc_sl_boundary.end_s
    /\ \E o \in ObstaclesOf(frame) :
           /\ ~o.is_virtual /\ HasManeuverPrefix(o)

(***************************************************************************)
(* C12.  A DETECT_SAFETY or PASS_OBSTACLE cycle in which re-projecting the *)
(* stored path fails, or trimming it to the ego position fails, returns    *)
(* ERROR and stops there: the frame's working path is not written, nothing *)
(* goes to the debug sink, the optimizer is not invoked, the next-stage    *)
(* directive stays as it was and the stage is kept.                        *)
(***************************************************************************)
C12_Case ==
    /\ ran' \in {"SIDE_PASS_DETECT_SAFETY", "SIDE_PASS_PASS_OBSTACLE"}
    /\ \/ ~frame'.frenet_ok
       \/ ~LeftTrimWithRefS(path_data_, frame'.adc_frenet_s).ok

C12_HandOffFailureStops ==
    [][ C12_Case =>
            /\ status' = "ERROR"
            /\ rfl_path_data' = << >>
            /\ debug_path' = << >>
            /\ \A i \in 1 .. Len(log') :
                   log'[i] \notin {"writeback", "debug", "plan"}
            /\ next_stage_' = Pre.next_stage_
            /\ stage' = stage ]_vars

C12_Witness ==
    /\ ran = "SIDE_PASS_DETECT_SAFETY"
    /\ status = "ERROR"
    /\ frame.frenet_ok
    /\ frame.plan_ok
    /\ log = << "update", "trim" >>

(***************************************************************************)
(* C13.  The active path is created before it is read: the detect-safety   *)
(* stage is entered only by a GENERATE_PATH cycle that stored the replanned*)
(* path and directed it, the pass-obstacle stage only from detect-safety,  *)
(* so the path_data_ a DETECT_SAFETY or PASS_OBSTACLE cycle re-projects    *)
(* and trims is never the empty path the scenario starts with.             *)
(***************************************************************************)
C13_ActivePathCreatedBeforeRead ==
    /\ (stage = "SIDE_PASS_DETECT_SAFETY" /\ ran # "SIDE_PASS_DETECT_SAFETY")
           => /\ ran = "SIDE_PASS_GENERATE_PATH"
              /\ status = "FINISHED"
              /\ next_stage_ = "SIDE_PASS_STOP_ON_WAITPOINT"
              /\ path_data_ = frame.plan_path
              /\ path_data_ # << >>
    /\ (stage = "SIDE_PASS_PASS_OBSTACLE" /\ ran # "SIDE_PASS_PASS_OBSTACLE")
           => ran = "SIDE_PASS_DETECT_SAFETY"
    /\ stage \in {"SIDE_PASS_DETECT_SAFETY", "SIDE_PASS_PASS_OBSTACLE"}
           => path_data_ # << >>
    /\ ran \in {"SIDE_PASS_DETECT_SAFETY", "SIDE_PASS_PASS_OBSTACLE"}
           => path_data_ # << >>

C13_Witness ==
    /\ ran = "SIDE_PASS_PASS_OBSTACLE"
    /\ status = "RUNNING"
    /\ log = << "update", "trim", "writeback", "debug", "plan" >>
    /\ path_data_ # << >>

(***************************************************************************)
(* C14.  As claimed: after a successful replan GENERATE_PATH stores the    *)
(* active path and directs detect-safety when the trajectory has a point,  *)
(* and otherwise returns RUNNING with the active path as it was before the *)
(* cycle.                                                                  *)
(***************************************************************************)
C14_Original ==
    [][ (ran' = "SIDE_PASS_GENERATE_PATH" /\ frame'.plan_ok) =>
            IF frame'.num_points > 0
            THEN /\ status' = "FINISHED"
                 /\ next_stage_' = "SIDE_PASS_STOP_ON_WAITPOINT"
                 /\ path_data_' = frame'.plan_path
            ELSE /\ status' = "RUNNING"
                 /\ path_data_' = path_data_ ]_vars

(***************************************************************************)
(* C14, amended.  After a successful replan GENERATE_PATH stores the       *)
(* replanned path as the active path in every case, before it looks at the *)
(* trajectory; it then directs detect-safety with FINISHED when the        *)
(* trajectory has a point and returns RUNNING otherwise, the active path   *)
(* being the replanned one in both cases.                                  *)
(***************************************************************************)
C14_StoredBeforeTrajectoryTest ==
    (ran = "SIDE_PASS_GENERATE_PATH" /\ frame.plan_ok) =>
        /\ path_data_ = frame.plan_path
        /\ frame.num_points > 0 =>
               /\ status = "FINISHED"
               /\ next_stage_ = "SIDE_PASS_STOP_ON_WAITPOINT"
        /\ frame.num_points = 0 =>
               /\ status = "RUNNING"
               /\ stage = "SIDE_PASS_GENERATE_PATH"

C14_Witness ==
    /\ ran = "SIDE_PASS_GENERATE_PATH"
    /\ frame.plan_ok
    /\ frame.num_points = 0
    /\ status = "RUNNING"
    /\ path_data_ = frame.plan_path
    /\ path_data_ # << >>

\* position of the first occurrence of step e in a cycle's log, 0 when absent
LogIndex(lg, e) ==
    IF \E i \in 1 .. Len(lg) : lg[i] = e
    THEN CHOOSE i \in 1 .. Len(lg) :
             lg[i] = e /\ \A j \in 1 .. (i - 1) : lg[j] # e
    ELSE 0

\* how many times step e occurs in a cycle's log
LogCount(lg, e) == Cardinality({ i \in 1 .. Len(lg) : lg[i] = e })

(***************************************************************************)
(* C15.  In every DETECT_SAFETY or PASS_OBSTACLE cycle that gets past the  *)
(* hand-off, the trimmed path is written back into the frame's working     *)
(* path before the debug recording and before the replan of that cycle,    *)
(* and the path recorded for debugging is the path written back.           *)
(***************************************************************************)
C15_Case ==
    /\ ran' \in {"SIDE_PASS_DETECT_SAFETY", "SIDE_PASS_PASS_OBSTACLE"}
    /\ HandOffSucceeds(path_data_, frame')

C15_WriteBackBeforeDebugAndPlan ==
    [][ C15_Case =>
            LET trimmed == LeftTrimWithRefS(path_data_,
                                            frame'.adc_frenet_s).path
            IN  /\ path_data_' = trimmed
                /\ LogIndex(log', "writeback") > 0
                /\ LogIndex(log', "writeback") < LogIndex(log', "debug")
                /\ LogIndex(log', "writeback") < LogIndex(log', "plan")
                /\ debug_path' = << trimmed >>
                /\ ~frame'.plan_ok => rfl_path_data' = trimmed ]_vars

C15_Witness ==
    /\ ran = "SIDE_PASS_DETECT_SAFETY"
    /\ status = "RUNNING"
    /\ log = << "update", "trim", "writeback", "debug", "plan" >>
    /\ debug_path = << path_data_ >>
    /\ Len(path_data_) < Len(frame.plan_path)

(***************************************************************************)
(* C16.  As claimed: every stage that replans in a cycle also records the  *)
(* newly computed path for debugging, in that cycle and after the replan.  *)
(***************************************************************************)
C16_Original ==
    LogCount(log, "plan") > 0 =>
        /\ LogIndex(log, "debug") > LogIndex(log, "plan")
        /\ debug_path = << rfl_path_data >>

(***************************************************************************)
(* C16, amended.  Only DETECT_SAFETY and PASS_OBSTACLE record a path for   *)
(* debugging in their own code; they record the trimmed stored path they   *)
(* wrote back, once, before the replan of the cycle, not the path that     *)
(* replan computes.  BACKUP, APPROACH_OBSTACLE and GENERATE_PATH replan    *)
(* without recording anything themselves.                                  *)
(***************************************************************************)
C16_OnlyHandOffStagesRecord ==
    /\ ran \in {"SIDE_PASS_BACKUP", "SIDE_PASS_APPROACH_OBSTACLE",
                "SIDE_PASS_GENERATE_PATH"}
           => /\ debug_path = << >>
              /\ LogCount(log, "debug") = 0
    /\ (ran \in {"SIDE_PASS_DETECT_SAFETY", "SIDE_PASS_PASS_OBSTACLE"}
          /\ LogCount(log, "plan") > 0)
           => /\ LogCount(log, "debug") = 1
              /\ LogIndex(log, "debug") < LogIndex(log, "plan")
              /\ debug_path = << path_data_ >>

C16_Witness ==
    /\ ran = "SIDE_PASS_PASS_OBSTACLE"
    /\ frame.plan_ok
    /\ LogCount(log, "plan") = 1
    /\ debug_path = << path_data_ >>
    /\ rfl_path_data # path_data_

(***************************************************************************)
(* C17.  The stored path is changed only by GENERATE_PATH and by the       *)
(* hand-off of DETECT_SAFETY and PASS_OBSTACLE: every BACKUP cycle and     *)
(* every APPROACH_OBSTACLE cycle, whatever its outcome, and a GENERATE_PATH*)
(* cycle whose replan fails leave path_data_ as it was; no cycle of any    *)
(* stage changes the configuration thresholds.                             *)
(***************************************************************************)
C17_Case ==
    \/ ran' \in {"SIDE_PASS_BACKUP", "SIDE_PASS_APPROACH_OBSTACLE"}
    \/ ran' = "SIDE_PASS_GENERATE_PATH" /\ ~frame'.plan_ok

C17_PathAndConfigFrame ==
    [][ /\ C17_Case => path_data_' = path_data_
        /\ scenario_config_' = scenario_config_
        /\ FLAGS_static_decision_nudge_l_buffer' =
               FLAGS_static_decision_nudge_l_buffer ]_vars

C17_Witness ==
    /\ ran = "SIDE_PASS_BACKUP"
    /\ status = "RUNNING"
    /\ LogCount(log, "plan") = 1
    /\ path_data_ # << >>
    /\ path_data_ # rfl_path_data

(***************************************************************************)
(* C18.  No internal retries: a cycle of any stage calls the replan at     *)
(* most once, whatever it returns; a BACKUP or APPROACH_OBSTACLE cycle     *)
(* whose obstacle filter finds no blocker calls it zero times and returns  *)
(* FINISHED with NO_STAGE.                                                 *)
(***************************************************************************)
C18_AtMostOneReplan ==
    /\ LogCount(log, "plan") <= 1
    /\ ( /\ ran = "SIDE_PASS_BACKUP"
         /\ \A o \in ObstaclesOf(frame) :
                \/ OutsideBlockingScope(o, frame)
                \/ LateralEncroachment(o, frame.lane.left, frame.lane.right,
                       FLAGS_static_decision_nudge_l_buffer) > 3 )
           => /\ LogCount(log, "plan") = 0
              /\ status = "FINISHED"
              /\ next_stage_ = "NO_STAGE"
    /\ ( /\ ran = "SIDE_PASS_APPROACH_OBSTACLE"
         /\ \A o \in ObstaclesOf(frame) : ~CorridorBlocker(o, frame) )
           => /\ LogCount(log, "plan") = 0
              /\ status = "FINISHED"
              /\ next_stage_ = "NO_STAGE"
    /\ (ran # "NO_STAGE" /\ ~frame.plan_ok /\ status = "ERROR"
          /\ ran \in {"SIDE_PASS_BACKUP", "SIDE_PASS_APPROACH_OBSTACLE"})
           => LogCount(log, "plan") = 1

C18_Witness ==
    /\ ran = "SIDE_PASS_APPROACH_OBSTACLE"
    /\ ~frame.plan_ok
    /\ status = "ERROR"
    /\ LogCount(log, "plan") = 1
    /\ \E o \in ObstaclesOf(frame) : CorridorBlocker(o, frame)

(***************************************************************************)
(* C19.  next_stage_ is assigned in exactly the cycles that return         *)
(* FINISHED: such a cycle leaves a directive of its stage, different from  *)
(* what the stage held before; a cycle of any stage that returns RUNNING   *)
(* or ERROR leaves next_stage_ as the stage held it before the cycle.      *)
(***************************************************************************)
C19_DirectiveOnlyWithFinished ==
    [][ /\ status' \in {"RUNNING", "ERROR"} =>
               next_stage_' = Pre.next_stage_
        /\ status' = "FINISHED" =>
               /\ next_stage_' # Pre.next_stage_
               /\ << ran', next_stage_' >> \in DirectiveTable ]_vars

C19_Witness ==
    /\ ran = "SIDE_PASS_APPROACH_OBSTACLE"
    /\ status = "RUNNING"
    /\ frame.plan_ok
    /\ next_stage_ = "SIDE_PASS_APPROACH_OBSTACLE"
    /\ stage = "SIDE_PASS_APPROACH_OBSTACLE"

(***************************************************************************)
(* C20.  No stage ever directs APPROACH_OBSTACLE and the only directive of *)
(* BACKUP is NO_STAGE: the approach stage is run only from the start, and  *)
(* once BACKUP has run (in particular after GENERATE_PATH degraded to it)  *)
(* the scenario stays in BACKUP, running or in error, or leaves with       *)
(* NO_STAGE; it never reaches another stage again.                         *)
(***************************************************************************)
C20_BackupIsFinal ==
    /\ status = "FINISHED" => next_stage_ # "SIDE_PASS_APPROACH_OBSTACLE"
    /\ (ran = "SIDE_PASS_BACKUP" /\ status = "FINISHED") =>
           next_stage_ = "NO_STAGE"
    /\ ran = "SIDE_PASS_BACKUP" => stage \in {"SIDE_PASS_BACKUP", "NO_STAGE"}
    /\ (ran = "SIDE_PASS_GENERATE_PATH" /\ next_stage_ = "SIDE_PASS_BACKUP"
          /\ status = "FINISHED") => stage = "SIDE_PASS_BACKUP"
    /\ stage = "SIDE_PASS_APPROACH_OBSTACLE" =>
           ran \in {"NO_STAGE", "SIDE_PASS_APPROACH_OBSTACLE"}

C20_Witness ==
    /\ ran = "SIDE_PASS_BACKUP"
    /\ status = "FINISHED"
    /\ next_stage_ = "NO_STAGE"
    /\ stage = "NO_STAGE"
    /\ path_data_ # << >>

====
